---- MODULE Spec2Model ----
(***************************************************************************)
(* A model of the SCF racial-wealth-gap pipeline:                          *)
(*   scf_collector.py          URL_DL_ZIP, SCF_load_data, scrape_SCF       *)
(*   wealth_stats_overtime.py  load_df, display_group_avgs,                *)
(*                             calc_zero_networth_races_overtime           *)
(* Strings are TLA+ strings and are concatenated as the code concatenates  *)
(* them; numbers are integers; a statistic that the code rounds to one     *)
(* decimal place is kept in tenths (333 stands for 33.3).                  *)
(* Five specifications share the variables:                                *)
(*   SpecFetch  one call of scrape_SCF                                     *)
(*   SpecLoad   load_df on one file                                        *)
(*   SpecAvgs   load_df, then display_group_avgs                           *)
(*   SpecMerge  load_df, the merge of two race labels, display_group_avgs  *)
(*   Spec       one call of calc_zero_networth_races_overtime              *)
(* The plot (plot_negative_wealth_overtime) and the printing (comma_num)   *)
(* are not modelled.                                                       *)
(***************************************************************************)
EXTENDS Integers, Sequences, FiniteSets, TLC

VARIABLES
    \* ---- scf_collector.py : one call of scrape_SCF ----
    fpc,        \* position in scrape_SCF: "years", "filetypes", "returned", "raised"
    fargs,      \* the arguments [datadir, start, until, filetypes]
    yi,         \* index of the current year in yrange
    fi,         \* index of the next filetype in filetypes
    paths,      \* the local dictionary paths: year -> (filetype -> path)
    dirs,       \* the directories of the file system
    files,      \* the files of the file system: path -> kind of content
    requests,   \* the HTTP requests made so far, in order, with their outcome
    fret        \* what scrape_SCF returned (NoValue until it returns)

fvars == <<fpc, fargs, yi, fi, paths, dirs, files, requests, fret>>

VARIABLES
    \* ---- wealth_stats_overtime.py : load_df, the merge, display_group_avgs on one table ----
    tpc,        \* "file": nothing loaded; "loaded": load_df returned; "merged": the
                \* race labels are replaced; "done": display_group_avgs returned; "raised"
    targs,      \* [filetype, var, avg_worth, group_black_hispanic]
    tbl,        \* the rows of the .dta file
    df,         \* the DataFrame in hand
    group_avgs  \* what display_group_avgs returned

tvars == <<tpc, targs, tbl, df, group_avgs>>

VARIABLES
    \* ---- wealth_stats_overtime.py : one call of calc_zero_networth_races_overtime ----
    opc,        \* "loop", "returned", "raised"
    oargs,      \* [group_black_hispanic, subtract_car_value, start, until]
    oi,         \* the number of years of the range that are done
    loads,      \* the calls of load_df so far, in order: the year, whether its
                \* file was found and the race codes in it
    ot_data,    \* the local dictionary ot_data: year -> group_avgs
    odirs,      \* the directories of the working directory
    csvs,       \* the CSV files written: path -> content
    oret        \* the DataFrame returned, or the error raised

ovars == <<opc, oargs, oi, loads, ot_data, odirs, csvs, oret>>

vars == <<fvars, tvars, ovars>>

-----------------------------------------------------------------------------
(* Bounds of the model *)

MaxOffset == 2      \* start ranges over FirstYear .. FirstYear + MaxOffset
MaxSpan == 4        \* until ranges over start .. start + MaxSpan
MaxFiletypes == 2   \* longest list of filetypes
MaxRows == 2        \* most rows of a .dta file
MaxWgt == 2         \* wgt ranges over 1 .. MaxWgt
MaxWorth == 1       \* networth is -MaxWorth, 0 or MaxWorth
MaxVehic == 1       \* vehic is 0 or MaxVehic
MaxUnmapped == 1    \* race codes range over 1 .. NumRaces + MaxUnmapped
MaxUntil == 4       \* until of the overtime run ranges over start .. start + MaxUntil

(* Program constants *)

FirstYear == 1989   \* default of start in scrape_SCF
YearStep == 3       \* the survey's cadence: the step of both year ranges
NumRaces == 5       \* the codes 1 .. 5 of race_map
Implicates == 5     \* the rows (implicates) of one household in a .dta file
IdFactor == 10      \* imputed_hh_id = household_id * 10 + implicate
WgtFactor == 5      \* the factor between wgt and hh_wgt

NoValue == "None"
Empty == << >>

-----------------------------------------------------------------------------
(* Helpers: Python's dict as a function, range as a sequence *)

\* d[k] = v on a dict
DictSet(d, k, v) == [x \in (DOMAIN d) \cup {k} |-> IF x = k THEN v ELSE d[x]]

\* list(range(lo, hi, step)) for step > 0
RECURSIVE PyRange(_, _, _)
PyRange(lo, hi, step) ==
    IF lo >= hi THEN << >> ELSE <<lo>> \o PyRange(lo + step, hi, step)

\* the directory arguments of this model that end in a separator
TrailingSep == {"data/"}

\* os.path.join(a, b) for a non-empty a and a relative b
path_join(a, b) == IF a \in TrailingSep THEN a \o b ELSE a \o "/" \o b

RECURSIVE SumSeq(_)
SumSeq(s) == IF Len(s) = 0 THEN 0 ELSE Head(s) + SumSeq(Tail(s))

Abs(n) == IF n < 0 THEN 0 - n ELSE n

RECURSIVE GCD(_, _)
GCD(a, b) == IF b = 0 THEN a ELSE GCD(b, a % b)

\* the quotient n / d (d > 0) that the code keeps as a float: here the exact
\* fraction in lowest terms
Quotient(n, d) == LET g == GCD(Abs(n), d) IN <<n \div g, d \div g>>

\* round(100 * (a / b), 1) for a >= 0 and b > 0, in tenths: the nearest tenth,
\* a tie going to the even one
RoundTenths(a, b) ==
    LET n == 1000 * a
        q == n \div b
        r == n % b
    IN IF 2 * r < b THEN q
       ELSE IF 2 * r > b THEN q + 1
       ELSE IF q % 2 = 0 THEN q ELSE q + 1

-----------------------------------------------------------------------------
(* scf_collector.py *)

Filetypes == {"summary", "raw"}

\* What the network and the server can do with one GET:
\*   "raise"    requests.get raises (no connection)
\*   "notzip"   a response whose body is no zip archive (an error page)
\*   "emptyzip" a zip archive without members
\*   "zip"      the survey's archive
Outcomes == {"raise", "notzip", "emptyzip", "zip"}

\* the data file inside the survey's archive
DtaName(year, filetype) ==
    IF filetype = "summary" THEN "rscfp" \o ToString(year) \o ".dta"
    ELSE "p" \o ToString(year) \o "i6.dta"

file_string(filetype) == IF filetype = "summary" THEN "p" ELSE ""

\* the panel flag set on the survey years instead of the others
panel_string_flipped(year) == IF (year % 3) = 0 THEN "p" ELSE ""

panel_string(year) == IF (year % 3) # 0 THEN "p" ELSE ""

url_of(year, filetype) ==
    "https://www.federalreserve.gov/econres/files/scf"
        \o file_string(filetype) \o ToString(year) \o panel_string(year) \o "s.zip"

targetdir_of(datadir, year) == path_join(datadir, ToString(year))

targetzip_of(datadir, year, filetype) ==
    path_join(targetdir_of(datadir, year),
              "SCF" \o ToString(year) \o "_data_public_" \o filetype \o ".zip")

\* os.makedirs(d) for d = datadir/year: creates d and its missing parent
makedirs(ds, datadir, d) == ds \cup {datadir, d}

\* a download that swallows its failure and answers with the archive's own path
URL_DL_ZIP_swallow(targetzip, targetdir, outcome, members, fs) ==
    IF outcome = "raise"
    THEN [err |-> "", files |-> fs, file_locs |-> <<targetzip>>]
    ELSE [err |-> "", files |-> DictSet(fs, targetzip, outcome),
          file_locs |-> <<targetzip>>]

\* URL_DL_ZIP(targetzip, targetdir, url) when the GET ends as outcome and the
\* archive's member list is members: the error raised ("" if none), the files
\* after the call and the list it returns.
URL_DL_ZIP(targetzip, targetdir, outcome, members, fs) ==
    IF outcome = "raise"
    THEN [err |-> "ConnectionError", files |-> fs, file_locs |-> << >>]
    ELSE IF outcome = "notzip"
    THEN [err |-> "BadZipFile", files |-> DictSet(fs, targetzip, "notzip"),
          file_locs |-> << >>]
    ELSE LET names == IF outcome = "emptyzip" THEN << >> ELSE members
             locs == [i \in 1..Len(names) |-> path_join(targetdir, names[i])]
             written == DictSet(fs, targetzip, "zip")
             extracted == [p \in (DOMAIN written) \cup {locs[i] : i \in 1..Len(locs)} |->
                             IF \E i \in 1..Len(locs) : locs[i] = p
                             THEN "dta" ELSE written[p]]
         IN [err |-> "", files |-> extracted, file_locs |-> locs]

\* SCF_load_data(datadir, year, filetype) with to_df=False: the request it
\* makes, the file system it leaves, the error it raises and the path it returns.
SCF_load_data(datadir, year, filetype, outcome, ds, fs) ==
    LET targetdir == targetdir_of(datadir, year)
        newdirs == IF targetdir \notin ds THEN makedirs(ds, datadir, targetdir) ELSE ds
        targetzip == targetzip_of(datadir, year, filetype)
        url == url_of(year, filetype)
        dl == URL_DL_ZIP(targetzip, targetdir, outcome,
                         <<DtaName(year, filetype)>>, fs)
        err == IF dl.err # "" THEN dl.err
               ELSE IF Len(dl.file_locs) = 0 THEN "IndexError" ELSE ""
    IN [request |-> [year |-> year, filetype |-> filetype, url |-> url,
                     targetzip |-> targetzip, outcome |-> outcome],
        dirs |-> newdirs,
        files |-> dl.files,
        err |-> err,
        value |-> IF err = "" THEN dl.file_locs[1] ELSE NoValue]

\* yrange = range(start, until+3, 3)
yrange(start, until) == PyRange(start, until + 3, YearStep)

FiletypeLists == UNION {[1..n -> Filetypes] : n \in 0..MaxFiletypes}

\* the base directories of the runs: the default and another one
DataDirs == {"data", "scf_files"}

\* The call scrape_SCF(datadir, start, until, filetypes) with start <= until.
\* Its test "if not os.path.exists:" is a test of the function itself and never
\* holds, so scrape_SCF creates no directory of its own.
FetchInit ==
    /\ fpc = "years"
    /\ \E datadir \in DataDirs :
       \E start \in FirstYear..(FirstYear + MaxOffset) :
       \E until \in start..(start + MaxSpan) :
       \E fts \in FiletypeLists :
          fargs = [datadir |-> datadir, start |-> start, until |-> until,
                   filetypes |-> fts]
    /\ yi = 0
    /\ fi = 0
    /\ paths = Empty
    \* the year directories may be left over from an earlier run
    /\ \E old \in SUBSET {targetdir_of(fargs.datadir, y) :
                              y \in {fargs.start, fargs.start + YearStep}} :
          dirs = IF old = {} THEN {} ELSE old \cup {fargs.datadir}
    /\ files = Empty
    /\ requests = << >>
    /\ fret = NoValue

Years == yrange(fargs.start, fargs.until)

\* for year in yrange:  paths[year] = {}
ScrapeYear ==
    /\ fpc = "years"
    /\ yi < Len(Years)
    /\ yi' = yi + 1
    /\ paths' = DictSet(paths, Years[yi + 1], Empty)
    /\ fi' = 0
    /\ fpc' = "filetypes"
    /\ UNCHANGED <<fargs, dirs, files, requests, fret>>
    /\ UNCHANGED <<tvars, ovars>>

\* for filetype in filetypes:  paths[year][filetype] = SCF_load_data(...)
ScrapeFetch ==
    /\ fpc = "filetypes"
    /\ fi < Len(fargs.filetypes)
    /\ \E outcome \in Outcomes :
          LET year == Years[yi]
              filetype == fargs.filetypes[fi + 1]
              r == SCF_load_data(fargs.datadir, year, filetype, outcome, dirs, files)
          IN /\ requests' = Append(requests, r.request)
             /\ dirs' = r.dirs
             /\ files' = r.files
             /\ IF r.err # ""
                THEN /\ fpc' = "raised"
                     /\ fret' = r.err
                     /\ UNCHANGED <<paths, fi>>
                ELSE /\ paths' = DictSet(paths, year, DictSet(paths[year], filetype, r.value))
                     /\ fi' = fi + 1
                     /\ UNCHANGED <<fpc, fret>>
    /\ UNCHANGED <<fargs, yi>>
    /\ UNCHANGED <<tvars, ovars>>

\* the inner loop is exhausted: back to the loop over the years
ScrapeYearDone ==
    /\ fpc = "filetypes"
    /\ fi >= Len(fargs.filetypes)
    /\ fpc' = "years"
    /\ UNCHANGED <<fargs, yi, fi, paths, dirs, files, requests, fret>>
    /\ UNCHANGED <<tvars, ovars>>

\* return paths
ScrapeReturn ==
    /\ fpc = "years"
    /\ yi >= Len(Years)
    /\ fpc' = "returned"
    /\ fret' = paths
    /\ UNCHANGED <<fargs, yi, fi, paths, dirs, files, requests>>
    /\ UNCHANGED <<tvars, ovars>>

FetchNext == ScrapeYear \/ ScrapeFetch \/ ScrapeYearDone \/ ScrapeReturn

FetchIdle ==
    /\ fpc = "idle"
    /\ fargs = NoValue
    /\ yi = 0
    /\ fi = 0
    /\ paths = Empty
    /\ dirs = {}
    /\ files = Empty
    /\ requests = << >>
    /\ fret = NoValue

-----------------------------------------------------------------------------
(* wealth_stats_overtime.py : the tables *)

NaN == "NaN"

\* a race_map with a default label
race_map_default(code) ==
    CASE code = 1 -> "white non-Hispanic"
      [] code = 2 -> "black/African-American"
      [] code = 3 -> "Hispanic"
      [] code = 4 -> "Asian"
      [] OTHER -> "other"

\* race_map, and what Series.map gives for a code that is no key of it
race_map(code) ==
    CASE code = 1 -> "white non-Hispanic"
      [] code = 2 -> "black/African-American"
      [] code = 3 -> "Hispanic"
      [] code = 4 -> "Asian"
      [] code = 5 -> "other"
      [] OTHER -> NaN

Codes == 1..(NumRaces + MaxUnmapped)
Wgts == 1..MaxWgt
Worths == {0 - MaxWorth, 0, MaxWorth}
Vehics == {0, MaxVehic}

\* row i of a .dta file: the households are numbered from 1, each with its
\* implicates 1 .. Implicates in turn
RawRow(i, code, w, nw, v) ==
    LET hh == 1 + ((i - 1) \div Implicates)
    IN [yy1 |-> hh, y1 |-> hh * IdFactor + 1 + ((i - 1) % Implicates),
        race |-> code, wgt |-> w, networth |-> nw, vehic |-> v]

\* the .dta file whose rows hold the cells c[1], c[2], ... (race, wgt, networth, vehic)
DtaFile(c) == [i \in 1..Len(c) |-> RawRow(i, c[i][1], c[i][2], c[i][3], c[i][4])]

\* load_df(year, filetype, datadir) on the file system fsys (path -> rows)
load_df(year, filetype, datadir, fsys) ==
    LET fname == "rscfp" \o ToString(year) \o ".dta"
        fpath == path_join(path_join(datadir, ToString(year)), fname)
    IN IF fpath \notin DOMAIN fsys
       THEN [err |-> "FileNotFoundError", df |-> << >>]
       ELSE IF filetype = "raw"
       THEN [err |-> "", df |-> fsys[fpath]]
       ELSE LET raw == fsys[fpath]
                row(r) ==
                    [household_id |-> r.yy1,
                     imputed_hh_id |-> r.y1,
                     race |-> race_map(r.race),
                     wgt |-> r.wgt,
                     networth |-> r.networth,
                     vehic |-> r.vehic,
                     implicate |-> r.y1 - r.yy1 * IdFactor,
                     hh_wgt |-> r.wgt * WgtFactor]
            IN [err |-> "", df |-> [i \in 1..Len(raw) |-> row(raw[i])]]

\* df['networth_withcar'] = df.networth.copy(); df.networth -= df.vehic
subtract_car_value(d) ==
    [i \in 1..Len(d) |->
        [c \in (DOMAIN d[i]) \cup {"networth_withcar"} |->
            IF c = "networth_withcar" THEN d[i].networth
            ELSE IF c = "networth" THEN d[i].networth - d[i].vehic
            ELSE d[i][c]]]

\* df.race.replace(old, new)
replace_race(d, old, new) ==
    [i \in 1..Len(d) |-> IF d[i].race = old THEN [d[i] EXCEPT !.race = new] ELSE d[i]]

\* the merge with its second replacement forgotten
group_hispanic_only(d) == replace_race(d, "Hispanic", "black & hispanic")

\* the two replacements of group_black_hispanic
group_black_hispanic(d) ==
    replace_race(replace_race(d, "Hispanic", "black & hispanic"),
                 "black/African-American", "black & hispanic")

\* g_df.wgt.sum()
wgt_sum(g) == SumSeq([i \in 1..Len(g) |-> g[i].wgt])

\* var_avg = sum(g_df.wgt * g_df[var]) / g_df.wgt.sum()
var_avg(g, var) == Quotient(SumSeq([i \in 1..Len(g) |-> g[i].wgt * g[i][var]]), wgt_sum(g))

\* nonetworth = g_df[g_df.networth<=0].wgt.sum(): the column tested is
\* networth, whatever var names
nonetworth(g, var) == wgt_sum(SelectSeq(g, LAMBDA r : r.networth <= 0))

\* pct_nonetworth = round(100*(nonetworth / (g_df.wgt.sum())), 1)
pct_nonetworth(g, var) == RoundTenths(nonetworth(g, var), wgt_sum(g))

\* the categories with the missing value kept as one of them
categories_keepnan(d, grouper) == {d[i][grouper] : i \in 1..Len(d)}

\* df[grouper].value_counts().index without the NaN that the loop skips
categories(d, grouper) == {d[i][grouper] : i \in 1..Len(d)} \ {NaN}

\* display_group_avgs(df, var, grouper, avg_worth): the dictionary it returns,
\* or the ZeroDivisionError of the total average (sum(...)/sum(df.wgt), both
\* sums the integer 0) of a table without rows. The weights are positive, so
\* no category has total weight 0. What it prints is left out.
display_group_avgs(d, var, grouper, avg_worth) ==
    LET g_df(gcat) == SelectSeq(d, LAMBDA r : r[grouper] = gcat)
        avgs == [gcat \in categories(d, grouper) |->
                    IF avg_worth THEN var_avg(g_df(gcat), var)
                    ELSE pct_nonetworth(g_df(gcat), var)]
    IN IF Len(d) = 0
       THEN [err |-> "ZeroDivisionError", value |-> NoValue]
       ELSE [err |-> "", value |-> avgs]

\* where the fetcher leaves the summary file of a year
DtaPath(year) == path_join(targetdir_of("data", year), DtaName(year, "summary"))

TableYear == 1992   \* default of start in calc_zero_networth_races_overtime

TableArgs == [filetype : Filetypes, var : {"networth", "vehic"},
              avg_worth : BOOLEAN, group_black_hispanic : BOOLEAN]

TableStart ==
    /\ tpc = "file"
    /\ tbl = << >>
    /\ df = << >>
    /\ group_avgs = NoValue

\* the cells (race, wgt, networth, vehic) that the files of a run are drawn from
TableCells ==
    LET vehics == IF targs.var = "vehic" THEN Vehics ELSE {0}
        worths == IF targs.filetype = "raw" THEN {0} ELSE Worths
    IN Codes \X Wgts \X worths \X vehics

\* df = load_df(year, filetype), the file of the year being file
TLoad ==
    /\ tpc = "file"
    /\ \E k \in 0..MaxRows : \E c \in [1..k -> TableCells] :
          LET file == DtaFile(c)
              r == load_df(TableYear, targs.filetype, "data/", DtaPath(TableYear) :> file)
          IN /\ tbl' = file
             /\ tpc' = IF r.err = "" THEN "loaded" ELSE "raised"
             /\ df' = r.df
    /\ UNCHANGED <<targs, group_avgs>>
    /\ UNCHANGED <<fvars, ovars>>

\* the replacements of the race labels on a summary table
TMerge ==
    /\ tpc = "loaded"
    /\ targs.filetype = "summary"
    /\ targs.group_black_hispanic
    /\ df' = group_black_hispanic(df)
    /\ tpc' = "merged"
    /\ UNCHANGED <<targs, tbl, group_avgs>>
    /\ UNCHANGED <<fvars, ovars>>

\* group_avgs = display_group_avgs(df, var, 'race', avg_worth) on a summary table
TAvgs ==
    /\ \/ tpc = "loaded" /\ ~targs.group_black_hispanic
       \/ tpc = "merged"
    /\ targs.filetype = "summary"
    /\ LET r == display_group_avgs(df, targs.var, "race", targs.avg_worth)
       IN /\ tpc' = IF r.err = "" THEN "done" ELSE "raised"
          /\ group_avgs' = r.value
    /\ UNCHANGED <<targs, tbl, df>>
    /\ UNCHANGED <<fvars, ovars>>

TableIdle ==
    /\ tpc = "idle"
    /\ targs = NoValue
    /\ tbl = << >>
    /\ df = << >>
    /\ group_avgs = NoValue

-----------------------------------------------------------------------------
(* wealth_stats_overtime.py : calc_zero_networth_races_overtime *)

\* a cell of a DataFrame of statistics: <<v>> holds v, << >> is the missing value
Missing == << >>

\* one cell as to_csv writes it: 333 (tenths) as "33.3", a missing cell as ""
csv_cell(c) ==
    IF c = Missing THEN "" ELSE ToString(c[1] \div 10) \o "." \o ToString(c[1] % 10)

\* pd.DataFrame(ot_data) of a dictionary year -> (category -> statistic), the
\* years in ascending order as the loop inserts them: the outer keys are the
\* columns, the inner keys the index, a cell without value is missing
DataFrame(d, years) ==
    LET cols == SelectSeq(years, LAMBDA y : y \in DOMAIN d)
        idx == UNION {DOMAIN d[y] : y \in DOMAIN d}
    IN [columns |-> cols,
        index |-> idx,
        cell |-> [k \in idx \X (DOMAIN d) |->
                     IF k[1] \in DOMAIN d[k[2]] THEN <<d[k[2]][k[1]]>> ELSE Missing]]

\* data.to_csv(path): the header line, then one line per label of the index
to_csv(data) ==
    [header |-> <<"">> \o [j \in 1..Len(data.columns) |-> ToString(data.columns[j])],
     lines |-> {<<label>> \o [j \in 1..Len(data.columns) |->
                                  csv_cell(data.cell[<<label, data.columns[j]>>])] :
                   label \in data.index}]

\* a file name that forgets the merge
csv_path_nogroup(subtract_car, group_bh) ==
    LET f0 == "pct_neg_wealth"
        f1 == IF subtract_car THEN f0 \o "_vehics_removed" ELSE f0
    IN "negative_wealth" \o "/" \o f1 \o ".csv"

\* the name of the CSV file
csv_path(subtract_car, group_bh) ==
    LET f0 == "pct_neg_wealth"
        f1 == IF subtract_car THEN f0 \o "_vehics_removed" ELSE f0
        f2 == IF group_bh THEN f1 \o "_blackhisp_grouped" ELSE f1
    IN "negative_wealth" \o "/" \o f2 \o ".csv"

\* the body of the loop for one year whose file is file: load_df, the two
\* optional transforms, display_group_avgs(df, 'networth', 'race')
year_stats(year, file, subtract_car, group_bh) ==
    LET fsys == IF file.present THEN DtaPath(year) :> file.rows ELSE Empty
        ld == load_df(year, "summary", "data/", fsys)
        d1 == IF subtract_car THEN subtract_car_value(ld.df) ELSE ld.df
        d2 == IF group_bh THEN group_black_hispanic(d1) ELSE d1
    IN IF ld.err # "" THEN [err |-> ld.err, value |-> NoValue]
       ELSE display_group_avgs(d2, "networth", "race", FALSE)

\* range(start, until, 3)
OtYears == PyRange(oargs.start, oargs.until, YearStep)

\* the race codes of the files of the overtime run: the three that the merge
\* tells apart (white, black, Hispanic) and one that race_map lacks
OtCodes == {1, 2, 3, NumRaces + 1}

\* the cells of the files of the overtime run: households of weight 1 that
\* own a vehicle and nothing else, or a vehicle and more
OtCells == OtCodes \X {1} \X {MaxVehic, MaxVehic + MaxWorth} \X {MaxVehic}

\* what may lie at data/<year>/rscfp<year>.dta: nothing (k = -1), or k rows
OtFile(k, c) ==
    IF k < 0 THEN [present |-> FALSE, rows |-> << >>]
    ELSE [present |-> TRUE, rows |-> DtaFile(c)]

OtInit ==
    /\ opc = "loop"
    /\ oargs \in [group_black_hispanic : BOOLEAN, subtract_car_value : BOOLEAN,
                  start : {TableYear}, until : TableYear..(TableYear + MaxUntil)]
    /\ oi = 0
    /\ loads = << >>
    /\ ot_data = Empty
    /\ odirs \in {{}, {"negative_wealth"}}
    /\ csvs = Empty
    /\ oret = NoValue

\* a loop that skips a year that fails and goes on with the next
OtYear_skip ==
    /\ opc = "loop"
    /\ oi < Len(OtYears)
    /\ \E k \in -1..MaxRows : \E c \in [1..k -> OtCells] :
          LET file == OtFile(k, c)
              year == OtYears[oi + 1]
              r == year_stats(year, file, oargs.subtract_car_value,
                              oargs.group_black_hispanic)
          IN /\ loads' = Append(loads,
                    [year |-> year, present |-> file.present,
                     codes |-> {file.rows[i].race : i \in 1..Len(file.rows)}])
             /\ ot_data' = IF r.err # "" THEN ot_data ELSE DictSet(ot_data, year, r.value)
             /\ oi' = oi + 1
             /\ UNCHANGED <<opc, oret>>
    /\ UNCHANGED <<oargs, odirs, csvs>>
    /\ UNCHANGED <<fvars, tvars>>

\* one turn of the loop over the years
OtYear ==
    /\ opc = "loop"
    /\ oi < Len(OtYears)
    /\ \E k \in -1..MaxRows : \E c \in [1..k -> OtCells] :
          LET file == OtFile(k, c)
              year == OtYears[oi + 1]
              r == year_stats(year, file, oargs.subtract_car_value,
                              oargs.group_black_hispanic)
          IN /\ loads' = Append(loads,
                    [year |-> year, present |-> file.present,
                     codes |-> {file.rows[i].race : i \in 1..Len(file.rows)}])
             /\ IF r.err # ""
                THEN /\ opc' = "raised"
                     /\ oret' = r.err
                     /\ UNCHANGED <<oi, ot_data>>
                ELSE /\ ot_data' = DictSet(ot_data, year, r.value)
                     /\ oi' = oi + 1
                     /\ UNCHANGED <<opc, oret>>
    /\ UNCHANGED <<oargs, odirs, csvs>>
    /\ UNCHANGED <<fvars, tvars>>

\* after the loop: the DataFrame, the file name, the directory, the CSV, return
OtSave ==
    /\ opc = "loop"
    /\ oi >= Len(OtYears)
    /\ LET data == DataFrame(ot_data, OtYears)
       IN /\ odirs' = odirs \cup {"negative_wealth"}
          /\ csvs' = DictSet(csvs, csv_path(oargs.subtract_car_value,
                                            oargs.group_black_hispanic), to_csv(data))
          /\ oret' = data
    /\ opc' = "returned"
    /\ UNCHANGED <<oargs, oi, loads, ot_data>>
    /\ UNCHANGED <<fvars, tvars>>

OtIdle ==
    /\ opc = "idle"
    /\ oargs = NoValue
    /\ oi = 0
    /\ loads = << >>
    /\ ot_data = Empty
    /\ odirs = {}
    /\ csvs = Empty
    /\ oret = NoValue

\* load_df alone, on both file types
LoadInit ==
    /\ TableStart
    /\ targs \in {a \in TableArgs : a.var = "networth" /\ ~a.avg_worth
                                    /\ ~a.group_black_hispanic}
    /\ FetchIdle
    /\ OtIdle

LoadNext == TLoad

SpecLoad == LoadInit /\ [][LoadNext]_vars

\* load_df and display_group_avgs, on every variable and both statistics
AvgsInit ==
    /\ TableStart
    /\ targs \in {a \in TableArgs : a.filetype = "summary" /\ ~a.group_black_hispanic}
    /\ FetchIdle
    /\ OtIdle

AvgsNext == TLoad \/ TAvgs

SpecAvgs == AvgsInit /\ [][AvgsNext]_vars

\* load_df, the merge of the two labels and display_group_avgs on networth
MergeInit ==
    /\ TableStart
    /\ targs \in {a \in TableArgs : a.filetype = "summary" /\ a.var = "networth"
                                    /\ a.group_black_hispanic}
    /\ FetchIdle
    /\ OtIdle

MergeNext == TLoad \/ TMerge \/ TAvgs

SpecMerge == MergeInit /\ [][MergeNext]_vars

-----------------------------------------------------------------------------

FetchStart ==
    /\ FetchInit
    /\ TableIdle
    /\ OtIdle

SpecFetch == FetchStart /\ [][FetchNext]_vars

OtNext == OtYear \/ OtSave

Init ==
    /\ OtInit
    /\ FetchIdle
    /\ TableIdle

Next == OtNext

Spec == Init /\ [][Next]_vars

-----------------------------------------------------------------------------
(* The fetcher: scrape_SCF, SCF_load_data, URL_DL_ZIP (SpecFetch) *)

\* C1: every request of SCF_load_data goes to
\* https://www.federalreserve.gov/econres/files/scf{f}{year}{p}s.zip with f = 'p'
\* for 'summary', '' for 'raw', and p = 'p' exactly when year mod 3 is not 0;
\* the archive is saved at <datadir>/<year>/SCF{year}_data_public_{filetype}.zip
\* and the directory <datadir>/<year> exists afterwards.
C1_UrlAndPaths ==
    \A i \in 1..Len(requests) :
        LET r == requests[i]
            ys == ToString(r.year)
            f == IF r.filetype = "summary" THEN "p" ELSE ""
            p == IF r.year % 3 = 0 THEN "" ELSE "p"
        IN /\ r.filetype \in {"summary", "raw"}
           /\ r.url = "https://www.federalreserve.gov/econres/files/scf"
                        \o f \o ys \o p \o "s.zip"
           /\ r.targetzip = fargs.datadir \o "/" \o ys \o "/SCF" \o ys
                               \o "_data_public_" \o r.filetype \o ".zip"
           /\ (fargs.datadir \o "/" \o ys) \in dirs
           /\ (r.outcome # "raise" => r.targetzip \in DOMAIN files)

\* both file types were requested for a year off the survey's cadence and an
\* archive was saved
C1_Witness ==
    /\ Len(requests) >= 2
    /\ requests[1].filetype = "summary"
    /\ requests[2].filetype = "raw"
    /\ requests[2].year % 3 # 0
    /\ requests[2].outcome = "zip"

\* the years start, start+3, ... up to until, as the claim counts them
C2_Years ==
    [k \in 1..((fargs.until - fargs.start) \div 3 + 1) |-> fargs.start + 3 * (k - 1)]

\* C2: scrape_SCF never fetches a year greater than until, and when it returns
\* it has made exactly one fetch per year of start, start+3, ... <= until and
\* filetype of the list, in ascending order of the years, and the keys of the
\* dictionary it returns are exactly those years.
C2_OneFetchPerYearUpToUntil ==
    /\ \A i \in 1..Len(requests) : requests[i].year <= fargs.until
    /\ fpc = "returned" =>
          LET n == Len(fargs.filetypes)
          IN /\ DOMAIN fret = {C2_Years[k] : k \in DOMAIN C2_Years}
             /\ Len(requests) = n * Len(C2_Years)
             /\ \A k \in DOMAIN C2_Years : \A j \in 1..n :
                   /\ requests[(k - 1) * n + j].year = C2_Years[k]
                   /\ requests[(k - 1) * n + j].filetype = fargs.filetypes[j]

\* C3: a request that raises, or that is answered by a body that is no zip
\* archive, is the last request of the run: scrape_SCF has raised the error,
\* made no further request and returned no dictionary; and every path that
\* SCF_load_data returned comes from a request that was answered by the archive.
C3_FailureSurfaces ==
    /\ \A i \in 1..Len(requests) :
          requests[i].outcome \in {"raise", "notzip"} =>
              /\ i = Len(requests)
              /\ fpc = "raised"
              /\ fret \in {"ConnectionError", "BadZipFile"}
    /\ \A y \in DOMAIN paths : \A ft \in DOMAIN paths[y] :
          \E j \in 1..Len(requests) :
              /\ requests[j].year = y
              /\ requests[j].filetype = ft
              /\ requests[j].outcome = "zip"

\* an error page arrives after an earlier fetch went well and while years remain
C3_Witness ==
    /\ fpc = "raised"
    /\ Len(requests) >= 2
    /\ requests[1].outcome = "zip"
    /\ requests[Len(requests)].outcome = "notzip"
    /\ yi < Len(Years)

-----------------------------------------------------------------------------
(* The loader and the aggregator on one table (SpecLoad, SpecAvgs, SpecMerge) *)

FiveLabels ==
    {"white non-Hispanic", "black/African-American", "Hispanic", "Asian", "other"}

\* t (in tenths) is 100 * a / b rounded to one decimal place
IsPctOf(t, a, b) == 2 * Abs(1000 * a - t * b) <= b

\* C4: with avg_worth=False, display_group_avgs returns for each category 100
\* times the weight of its rows whose value of var is <= 0 over the weight of
\* all its rows, rounded to one decimal place, whatever column var names.
C4_ShareOfVar ==
    (tpc = "done" /\ ~targs.avg_worth) =>
        /\ DOMAIN group_avgs = {df[i].race : i \in 1..Len(df)} \ {NaN}
        /\ \A gcat \in DOMAIN group_avgs :
              LET rows == SelectSeq(df, LAMBDA r : r.race = gcat)
                  low == SelectSeq(rows, LAMBDA r : r[targs.var] <= 0)
              IN IsPctOf(group_avgs[gcat],
                         SumSeq([i \in 1..Len(low) |-> low[i].wgt]),
                         SumSeq([i \in 1..Len(rows) |-> rows[i].wgt]))

\* display_group_avgs on the rows u taken as one category
C5_Direct(u) ==
    display_group_avgs([i \in 1..Len(u) |-> [u[i] EXCEPT !.race = "union"]],
                       targs.var, "race", targs.avg_worth).value["union"]

\* C5: after the two labels are replaced by 'black & hispanic', the statistic
\* of that key is the statistic of the union of the rows that load_df labelled
\* 'Hispanic' or 'black/African-American', neither old label is a key any
\* more, and every other category keeps the statistic it has without the merge.
C5_MergeIsUnion ==
    tpc = "done" =>
        LET loaded == load_df(TableYear, "summary", "data/", DtaPath(TableYear) :> tbl).df
            union == SelectSeq(loaded, LAMBDA r :
                        r.race \in {"Hispanic", "black/African-American"})
            apart == display_group_avgs(loaded, targs.var, "race", targs.avg_worth).value
            others == (DOMAIN apart) \ {"Hispanic", "black/African-American"}
        IN /\ DOMAIN group_avgs =
                 others \cup (IF Len(union) > 0 THEN {"black & hispanic"} ELSE {})
           /\ Len(union) > 0 => group_avgs["black & hispanic"] = C5_Direct(union)
           /\ \A gcat \in others : group_avgs[gcat] = apart[gcat]

\* a Hispanic and a black household of different weight and wealth are merged:
\* a third of the weight of the union has no wealth
C5_Witness ==
    /\ tpc = "done"
    /\ ~targs.avg_worth
    /\ \E i, j \in 1..Len(tbl) : tbl[i].race = 2 /\ tbl[j].race = 3
    /\ "black & hispanic" \in DOMAIN group_avgs
    /\ group_avgs["black & hispanic"] = 333

\* C6: on a summary file, load_df labels the race codes 1..5 as 'white
\* non-Hispanic', 'black/African-American', 'Hispanic', 'Asian', 'other', and
\* gives every row of another code a missing race that is none of the five.
C6_RaceLabels ==
    (tpc = "loaded" /\ targs.filetype = "summary") =>
        /\ Len(df) = Len(tbl)
        /\ \A i \in 1..Len(tbl) :
              LET code == tbl[i].race
                  label == df[i].race
              IN /\ code = 1 => label = "white non-Hispanic"
                 /\ code = 2 => label = "black/African-American"
                 /\ code = 3 => label = "Hispanic"
                 /\ code = 4 => label = "Asian"
                 /\ code = 5 => label = "other"
                 /\ code \notin 1..5 => label \notin FiveLabels

\* a file with a row of code 5 and a row of code 6 is loaded
C6_Witness ==
    /\ tpc = "loaded"
    /\ targs.filetype = "summary"
    /\ \E i, j \in 1..Len(tbl) :
          /\ tbl[i].race = 5 /\ df[i].race = "other"
          /\ tbl[j].race = 6 /\ df[j].race = NaN

\* C10: on a summary file, load_df leaves wgt as it is and derives hh_wgt as
\* wgt divided by five.
C10_HhWgtIsFifth ==
    (tpc = "loaded" /\ targs.filetype = "summary") =>
        \A i \in 1..Len(tbl) :
            /\ df[i].wgt = tbl[i].wgt
            /\ 5 * df[i].hh_wgt = tbl[i].wgt

-----------------------------------------------------------------------------
(* calc_zero_networth_races_overtime (Spec) *)

\* the load of the i-th year read a file with a race code outside 1..5
HasUnmapped(i) == loads[i].present /\ ~(loads[i].codes \subseteq 1..5)

\* the load or the aggregation of the i-th year failed: no file, or no rows
Failed(i) == ~loads[i].present \/ loads[i].codes = {}

\* C7 as claimed: once a year's file holds a race code outside 1..5, the run
\* returns no table and writes no CSV.
C7_UnmappedFaults ==
    (\E i \in 1..Len(loads) : HasUnmapped(i)) => (opc # "returned" /\ csvs = Empty)

\* the label of a race code in 1..5 in the results, under the merge or not
C7_Label(code) ==
    IF code \in {2, 3} /\ oargs.group_black_hispanic THEN "black & hispanic"
    ELSE IF code = 1 THEN "white non-Hispanic"
    ELSE IF code = 2 THEN "black/African-American"
    ELSE IF code = 3 THEN "Hispanic"
    ELSE IF code = 4 THEN "Asian"
    ELSE "other"

\* C7 as amended: a race code outside 1..5 raises no fault. The year is
\* aggregated, its rows of such a code form no category and count in none (the
\* categories of the year are the labels of its codes in 1..5), and the run
\* raises only for a file that is absent or has no rows.
C7_UnmappedDropped ==
    /\ \A i \in 1..Len(loads) :
          HasUnmapped(i) =>
              /\ loads[i].year \in DOMAIN ot_data
              /\ DOMAIN ot_data[loads[i].year] =
                    {C7_Label(code) : code \in loads[i].codes \cap (1..5)}
    /\ opc = "raised" => (Len(loads) > 0 /\ Failed(Len(loads)))

\* a run whose first year has white households and households of code 6
\* returns and writes its CSV
C7_Witness ==
    /\ opc = "returned"
    /\ csvs # Empty
    /\ Len(loads) >= 1
    /\ loads[1].codes = {1, 6}

\* C8: the years are loaded in ascending order start, start+3, ... below
\* until; a year whose load or aggregation fails is the last one loaded, and
\* the run has then raised: no table is returned and no CSV is written, also
\* when earlier years went well. A CSV exists only once the run has returned.
C8_FailureAbandons ==
    /\ \A i \in 1..Len(loads) :
          /\ loads[i].year = oargs.start + 3 * (i - 1)
          /\ loads[i].year < oargs.until
          /\ Failed(i) =>
                /\ i = Len(loads)
                /\ opc = "raised"
                /\ oret \in {"FileNotFoundError", "ZeroDivisionError"}
                /\ csvs = Empty
    /\ csvs # Empty => opc = "returned"

\* the file of the second year is absent after the first year was aggregated
C8_Witness ==
    /\ opc = "raised"
    /\ Len(loads) = 2
    /\ ~loads[2].present
    /\ DOMAIN ot_data = {oargs.start}
    /\ csvs = Empty

\* the CSV file of a run that has returned
C9_Csv == csvs[CHOOSE path \in DOMAIN csvs : TRUE]

\* the text of the years the run processed
C9_YearLabels == {ToString(loads[i].year) : i \in 1..Len(loads)}

\* the categories the run met
C9_Categories == UNION {DOMAIN ot_data[y] : y \in DOMAIN ot_data}

\* C9 as claimed: the table has one row per processed year and one column per
\* category.
C9_RowsAreYears ==
    opc = "returned" =>
        /\ {line[1] : line \in C9_Csv.lines} = C9_YearLabels
        /\ {C9_Csv.header[j] : j \in 2..Len(C9_Csv.header)} = C9_Categories
        /\ Cardinality(oret.index) = Len(loads)
        /\ Len(oret.columns) = Cardinality(C9_Categories)

\* C9 as amended: the table has one column per processed year, in ascending
\* order, and one row per category met in any year; a cell holds the year's
\* statistic for the category, or is missing when the year has no row of it.
\* The CSV has the same layout, and its name carries _vehics_removed exactly
\* when subtract_car_value is set and _blackhisp_grouped exactly when
\* group_black_hispanic is set.
C9_ColumnsAreYears ==
    opc = "returned" =>
        /\ oret.columns = [i \in 1..Len(loads) |-> loads[i].year]
        /\ oret.index = C9_Categories
        /\ \A gcat \in C9_Categories : \A y \in DOMAIN ot_data :
              oret.cell[<<gcat, y>>] =
                  IF gcat \in DOMAIN ot_data[y] THEN <<ot_data[y][gcat]>> ELSE << >>
        /\ DOMAIN csvs =
              {"negative_wealth/pct_neg_wealth"
                  \o (IF oargs.subtract_car_value THEN "_vehics_removed" ELSE "")
                  \o (IF oargs.group_black_hispanic THEN "_blackhisp_grouped" ELSE "")
                  \o ".csv"}
        /\ C9_Csv.header = <<"">> \o [i \in 1..Len(loads) |-> ToString(loads[i].year)]
        /\ {line[1] : line \in C9_Csv.lines} = C9_Categories
        /\ \A line \in C9_Csv.lines :
              /\ Len(line) = 1 + Len(loads)
              /\ \A i \in 1..Len(loads) :
                    (line[1 + i] = "") <=> (line[1] \notin DOMAIN ot_data[loads[i].year])
        /\ "negative_wealth" \in odirs

\* two years with different categories: the table has two columns, two rows
\* and a missing cell, under both flags
C9_Witness ==
    /\ opc = "returned"
    /\ oargs.subtract_car_value
    /\ oargs.group_black_hispanic
    /\ Len(oret.columns) = 2
    /\ Cardinality(oret.index) = 2
    /\ \E k \in DOMAIN oret.cell : oret.cell[k] = << >>

====
